---- MODULE Spec2Model ----
(***************************************************************************)
(* Model of the MLEM reconstruction engine of Neutron-Spectrometry.        *)
(*                                                                         *)
(* runMLEM (src/mlem/main.cpp:1261-1356) is modelled statement group by    *)
(* statement group; the caller is main (src/mlem/main.cpp:217-236), which  *)
(* calls it once, and the iteration sweep of auto_unfold_spectrum.cpp      *)
(* (lines 381-390), which calls it again on the spectrum the previous call *)
(* left behind.                                                            *)
(*                                                                         *)
(* A C++ double is modelled as a pair <<n, d>> with d >= 0:                *)
(*   d > 0        the rational n/d in lowest terms (rounding is not       *)
(*                modelled: the arithmetic is exact),                      *)
(*   <<1, 0>>     +infinity,   <<-1, 0>>  -infinity,                       *)
(*   <<0, 0>>     NaN,                                                     *)
(* with the IEEE-754 rules for division by zero, infinities and NaN, which *)
(* is what the source's unguarded divisions produce.                       *)
(***************************************************************************)
EXTENDS Integers, Sequences, FiniteSets, TLC

\* ------------------------------------------------------------------------
\* Bounds of the model
\* ------------------------------------------------------------------------
\* largest number of iterations a caller asks for on one spectrum: the
\* iteration caps of its successive calls add up to at most this
MaxIterations == 4
\* number of successive runMLEM calls the caller makes on one spectrum
MaxCalls == 2

\* ------------------------------------------------------------------------
\* double arithmetic
\*
\* Every operation binds its operands once (x \in {x0}) before it uses
\* them, so that an operand which is itself a long expression is evaluated
\* a single time.
\* ------------------------------------------------------------------------
Abs(x) == IF x < 0 THEN -x ELSE x

Sgn(x) == IF x < 0 THEN -1 ELSE IF x = 0 THEN 0 ELSE 1

RECURSIVE GCD(_, _)
GCD(a0, b0) ==
    CHOOSE g \in { IF b = 0 THEN a ELSE GCD(b, a % b) : a \in {a0}, b \in {b0} } : TRUE

\* the double n/d, d >= 0, in canonical form
Norm(n0, d0) ==
    CHOOSE r \in
        { IF d = 0 THEN <<Sgn(n), 0>>
          ELSE CHOOSE q \in { <<n \div g, d \div g>> : g \in {GCD(Abs(n), d)} } : TRUE
          : n \in {n0}, d \in {d0} } : TRUE

NaN == <<0, 0>>
Zero == <<0, 1>>
One == <<1, 1>>

IsNaN(x) == x = NaN
IsInf(x) == x[2] = 0 /\ x[1] # 0
IsFinite(x) == x[2] > 0

\* x + y on bound operands
AddValues(x, y) ==
    IF IsNaN(x) \/ IsNaN(y) THEN NaN
    ELSE IF IsInf(x) /\ IsInf(y) THEN (IF x = y THEN x ELSE NaN)
    ELSE IF IsInf(x) THEN x
    ELSE IF IsInf(y) THEN y
    ELSE CHOOSE r \in
           { Norm(x[1] * (y[2] \div g) + y[1] * (x[2] \div g), (x[2] \div g) * y[2])
             : g \in {GCD(x[2], y[2])} } : TRUE

\* x * y on bound operands
MulValues(x, y) ==
    IF IsNaN(x) \/ IsNaN(y) THEN NaN
    ELSE IF IsInf(x) \/ IsInf(y) THEN <<Sgn(x[1]) * Sgn(y[1]), 0>>
    ELSE CHOOSE r \in
           { Norm((x[1] \div g1) * (y[1] \div g2), (x[2] \div g2) * (y[2] \div g1))
             : g1 \in {GCD(Abs(x[1]), y[2])}, g2 \in {GCD(Abs(y[1]), x[2])} } : TRUE

\* x / y on bound operands
DivValues(x, y) ==
    IF IsNaN(x) \/ IsNaN(y) THEN NaN
    ELSE IF IsInf(y) THEN (IF IsInf(x) THEN NaN ELSE Zero)
    ELSE IF y[1] = 0 THEN <<Sgn(x[1]), 0>>
    ELSE IF IsInf(x) THEN <<Sgn(x[1]) * Sgn(y[1]), 0>>
    ELSE MulValues(x, <<Sgn(y[1]) * y[2], Abs(y[1])>>)

\* x >= y on bound operands (false when either side is NaN)
GEValues(x, y) ==
    IF IsNaN(x) \/ IsNaN(y) THEN FALSE
    ELSE IF IsInf(x) THEN (x[1] > 0 \/ x = y)
    ELSE IF IsInf(y) THEN y[1] < 0
    ELSE x[1] * y[2] >= y[1] * x[2]

\* x + y
FAdd(x0, y0) == CHOOSE r \in { AddValues(x, y) : x \in {x0}, y \in {y0} } : TRUE

\* x - y
FSub(x0, y0) == CHOOSE r \in { AddValues(x, <<-y[1], y[2]>>) : x \in {x0}, y \in {y0} } : TRUE

\* x * y
FMul(x0, y0) == CHOOSE r \in { MulValues(x, y) : x \in {x0}, y \in {y0} } : TRUE

\* x / y
FDiv(x0, y0) == CHOOSE r \in { DivValues(x, y) : x \in {x0}, y \in {y0} } : TRUE

\* x >= y and x <= y (false when either side is NaN)
FGE(x0, y0) == \E x \in {x0}, y \in {y0} : GEValues(x, y)
FLE(x0, y0) == \E x \in {x0}, y \in {y0} : GEValues(y, x)

\* x > y and x < y (false when either side is NaN)
FGT(x0, y0) == \E x \in {x0}, y \in {y0} : GEValues(x, y) /\ x # y
FLT(x0, y0) == \E x \in {x0}, y \in {y0} : GEValues(y, x) /\ x # y

\* a vector / matrix of doubles from integer data
Vec(v) == [i \in DOMAIN v |-> <<v[i], 1>>]
Mat(r) == [m \in DOMAIN r |-> Vec(r[m])]


\* ------------------------------------------------------------------------
\* Inputs: what the caller loads from its input files and its settings
\* ------------------------------------------------------------------------
\* response matrices nns_response[i_meas][i_bin] (rows: measurements)
Responses ==
    { << <<1, 0>>, <<0, 1>> >>,
      << <<1, 1>>, <<0, 1>> >>,
      << <<1>>, <<1>> >>,
      << <<1, 1>> >> }

\* values of one measurement (cps) and of one bin of the input spectrum
MeasValues == {0, 2, 3}
SpecValues == {0, 1, 2}

\* values of the setting 'error' (1/100 and 1/2)
Errors == { <<1, 100>>, <<1, 2>> }

\* the worked example of the specification: identity response,
\* measurements (2,3), flat initial spectrum, tolerance 0.01, cap 100
Scenario ==
    [ nns_response |-> Mat(<< <<1, 0>>, <<0, 1>> >>),
      measurements |-> Vec(<<2, 3>>),
      spectrum     |-> Vec(<<1, 1>>),
      error        |-> <<1, 100>>,
      cutoff       |-> 100 ]

\* ------------------------------------------------------------------------
\* The statements of runMLEM's loop body
\* ------------------------------------------------------------------------
\* temp_value += nns_response[i_meas][i_bin]*spectrum[i_bin], i_bin = 0..k-1
RECURSIVE EstimateSum(_, _, _, _)
EstimateSum(resp, spec, m, k) ==
    IF k = 0 THEN Zero
    ELSE FAdd(EstimateSum(resp, spec, m, k - 1), FMul(resp[m][k], spec[k]))

\* mlem_estimate = nns_response x spectrum
MlemEstimate(resp, spec, nm, nb) ==
    [m \in 1..nm |-> EstimateSum(resp, spec, m, nb)]

\* transpose_response[i_bin][i_meas] = nns_response[i_meas][i_bin]
TransposeResponse(resp, nm, nb) ==
    [b \in 1..nb |-> [m \in 1..nm |-> resp[m][b]]]

\* faulty variant: the ratio taken upside down (estimate / measurement)
MlemRatioInverted(meas, est, nm) ==
    [m \in 1..nm |-> FDiv(est[m], meas[m])]

\* mlem_ratio[i_meas] = measurements[i_meas] / mlem_estimate[i_meas]
MlemRatio(meas, est, nm) ==
    [m \in 1..nm |-> FDiv(meas[m], est[m])]

\* temp_value += transpose_response[i_bin][i_meas]*mlem_ratio[i_meas], i_meas = 0..k-1
RECURSIVE CorrectionSum(_, _, _, _)
CorrectionSum(tr, ratio, b, k) ==
    IF k = 0 THEN Zero
    ELSE FAdd(CorrectionSum(tr, ratio, b, k - 1), FMul(tr[b][k], ratio[k]))

\* mlem_correction = transpose_response x mlem_ratio
MlemCorrection(tr, ratio, nm, nb) ==
    [b \in 1..nb |-> CorrectionSum(tr, ratio, b, nm)]

\* temp_value += transpose_response[i_bin][i_meas], i_meas = 0..k-1
RECURSIVE NormalizationSum(_, _, _)
NormalizationSum(tr, b, k) ==
    IF k = 0 THEN Zero
    ELSE FAdd(NormalizationSum(tr, b, k - 1), tr[b][k])

\* faulty variant: every bin is normalized by the number of measurements
MlemNormalizationCount(tr, nm, nb) ==
    [b \in 1..nb |-> <<nm, 1>>]

\* mlem_normalization: the column sums of the response
MlemNormalization(tr, nm, nb) ==
    [b \in 1..nb |-> NormalizationSum(tr, b, nm)]

\* faulty variant: the correction is not multiplied with the old value
UpdateSpectrumUnscaled(spec, corr, norm, nb) ==
    [b \in 1..nb |-> FDiv(corr[b], norm[b])]

\* spectrum[i_bin] = spectrum[i_bin]*mlem_correction[i_bin]/mlem_normalization[i_bin]
UpdateSpectrum(spec, corr, norm, nb) ==
    [b \in 1..nb |-> FDiv(FMul(spec[b], corr[b]), norm[b])]

\* the spectrum after one pass of the loop body, given that pass's ratio
NewSpectrum(resp, spec, ratio, nm, nb) ==
    LET tr == TransposeResponse(resp, nm, nb)
    IN  UpdateSpectrum(spec, MlemCorrection(tr, ratio, nm, nb),
                       MlemNormalization(tr, nm, nb), nb)

\* faulty variant: the tolerance forgotten, any ratio different from 1 continues
ContinueMlemNoTolerance(ratio, err, nm) ==
    \E m \in 1..nm : FGE(ratio[m], One) \/ FLE(ratio[m], One)

\* faulty variant: the mean of the ratios is tested instead of each ratio
RECURSIVE RatioSum(_, _)
RatioSum(ratio, k) ==
    IF k = 0 THEN Zero ELSE FAdd(RatioSum(ratio, k - 1), ratio[k])

ContinueMlemAverage(ratio, err, nm) ==
    LET avg == FDiv(RatioSum(ratio, nm), <<nm, 1>>)
    IN  FGE(avg, FAdd(One, err)) \/ FLE(avg, FSub(One, err))

\* continue_mlem after the scan of mlem_ratio
ContinueMlem(ratio, err, nm) ==
    \E m \in 1..nm :
        FGE(ratio[m], FAdd(One, err)) \/ FLE(ratio[m], FSub(One, err))

\* faulty variant: the loop runs up to and including the cap
ForConditionInclusive(idx, c) == idx <= c

\* the loop condition mlem_index < cutoff
ForCondition(idx, c) == idx < c

\* faulty variant: one less than the loop index is returned
ReturnValueMinusOne(idx) == idx - 1

\* return mlem_index
ReturnValue(idx) == idx

\* the spectrum runMLEM leaves behind when entered with loop index idx
RECURSIVE RunSpectrum(_, _, _, _, _, _, _, _)
RunSpectrum(idx, c, err, nm, nb, meas, spec, resp) ==
    IF ~ForCondition(idx, c) THEN spec
    ELSE LET ratio == MlemRatio(meas, MlemEstimate(resp, spec, nm, nb), nm)
             new   == NewSpectrum(resp, spec, ratio, nm, nb)
         IN  IF ContinueMlem(ratio, err, nm)
             THEN RunSpectrum(idx + 1, c, err, nm, nb, meas, new, resp)
             ELSE new

\* the number of times runMLEM updates the spectrum when entered with loop
\* index idx
RECURSIVE RunUpdates(_, _, _, _, _, _, _, _)
RunUpdates(idx, c, err, nm, nb, meas, spec, resp) ==
    IF ~ForCondition(idx, c) THEN 0
    ELSE LET ratio == MlemRatio(meas, MlemEstimate(resp, spec, nm, nb), nm)
             new   == NewSpectrum(resp, spec, ratio, nm, nb)
         IN  IF ContinueMlem(ratio, err, nm)
             THEN 1 + RunUpdates(idx + 1, c, err, nm, nb, meas, new, resp)
             ELSE 1


\* ------------------------------------------------------------------------
\* State
\* ------------------------------------------------------------------------
VARIABLES
    nns_response,      \* the response matrix (read from file by the caller)
    measurements,      \* the measurements in cps
    num_measurements,  \* measurements.size()
    num_bins,          \* energy_bins.size()
    initial_spectrum,  \* the input spectrum as loaded
    spectrum,          \* the spectrum runMLEM works on, in place
    error,             \* setting: tolerance on the ratios
    cutoff,            \* argument of the current / last call
    mlem_index,        \* runMLEM's loop index
    mlem_estimate,     \* runMLEM's local mlem_estimate
    mlem_ratio,        \* the ratio vector, in place
    continue_mlem,     \* runMLEM's local continue_mlem
    num_iterations,    \* the value the last call returned
    pc,                \* position of the program
    cutoffs,           \* history: the cutoff argument of every call so far
    spectrum_in,       \* history: the spectrum at entry of the current call
    updates,           \* history: spectrum updates done by the current call
    broke,             \* history: the current call left its loop by 'break'
    breaks,            \* history: number of calls so far that left by 'break'
    zero_estimate,     \* history: the current call computed an estimate of 0
    spectrum_before,   \* history: the spectrum before the last update
    \* the mlem program (src/mlem/main.cpp), outside runMLEM
    input_files,       \* the contents of the input files
    num_poisson_samples, \* setting: number of Poisson replicates
    icrp_factors,      \* the ICRP conversion factors as loaded
    exception,         \* the error the program was terminated with, or "none"
    checked,           \* history: the dimension checks performed so far
    m_poisson,         \* index m of the current Poisson replicate
    ini_poisson,       \* the replicate's spectrum, updated in place
    data_poisson,      \* the replicate's sampled measurements
    dose_std,          \* the dose of the replicate's spectrum
    poissmat,          \* the final spectrum of every replicate so far
    dosemat,           \* the dose of every replicate so far
    sq,                \* per bin: the accumulated squared deviations
    sq_average,        \* per bin: sq / num_poisson_samples
    s,                 \* per bin: the reported uncertainty
    dose,              \* the dose of the reference spectrum
    s_dose,            \* the reported uncertainty of the dose
    \* the auto-unfold program (auto_unfold_spectrum.cpp), outside the solver
    settings,          \* the settings of a sweep
    i_beta,            \* index of the current beta value (map sweep)
    i_num,             \* index of the current iteration checkpoint
    results_stream,    \* the cells streamed for the output file, in order
    derivative_poi_values, \* the POI values held back for the derivatives
    current_spectrum,  \* the spectrum a sweep reconstructs, in place
    output_file        \* the lines written to the output file, in order

\* the variables of the mlem program besides those runMLEM works on
mlem_vars ==
    << input_files, num_poisson_samples, icrp_factors, exception, checked,
       m_poisson, ini_poisson, data_poisson, dose_std, poissmat, dosemat, sq, sq_average,
       s, dose, s_dose >>

\* the variables of the auto-unfold sweeps
auto_vars ==
    << settings, i_beta, i_num, results_stream, derivative_poi_values,
       current_spectrum, output_file >>

vars ==
    << nns_response, measurements, num_measurements, num_bins,
       initial_spectrum, spectrum, error, cutoff, mlem_index, mlem_estimate,
       mlem_ratio, continue_mlem, num_iterations, pc, cutoffs, spectrum_in,
       updates, broke, breaks, zero_estimate, spectrum_before,
       mlem_vars, auto_vars >>

inputs == << nns_response, measurements, num_measurements, num_bins,
             initial_spectrum, error >>

\* the loaded inputs are those of the worked example
IsScenario ==
    /\ nns_response = Scenario.nns_response
    /\ measurements = Scenario.measurements
    /\ initial_spectrum = Scenario.spectrum
    /\ error = Scenario.error

\* the sum of the iteration caps of the calls made so far
RECURSIVE SumCutoffs(_)
SumCutoffs(cs) == IF cs = << >> THEN 0 ELSE Head(cs) + SumCutoffs(Tail(cs))

\* the iteration caps a caller passes to its next call
Cutoffs ==
    (0..(MaxIterations - SumCutoffs(cutoffs)))
    \cup (IF IsScenario /\ cutoffs = << >> THEN {Scenario.cutoff} ELSE {})

\* the Poisson resampling and the dose: declared, nothing computed yet
PoissonIdle ==
    /\ m_poisson = 0
    /\ ini_poisson = << >>
    /\ data_poisson = << >>
    /\ dose_std = Zero
    /\ poissmat = << >>
    /\ dosemat = << >>
    /\ sq = << >>
    /\ sq_average = << >>
    /\ s = << >>
    /\ dose = Zero
    /\ s_dose = [radicand |-> Zero]

\* the rest of the mlem program is not running
MlemIdle ==
    /\ input_files = << >>
    /\ num_poisson_samples = 0
    /\ icrp_factors = << >>
    /\ exception = "none"
    /\ checked = {}
    /\ PoissonIdle

\* no sweep of the auto-unfold program is running
AutoIdle ==
    /\ settings = << >>
    /\ i_beta = 0
    /\ i_num = 0
    /\ results_stream = << >>
    /\ derivative_poi_values = << >>
    /\ current_spectrum = << >>
    /\ output_file = << >>

\* main up to the first call of runMLEM: the inputs are loaded, their
\* dimensions agree (checkDimensions), spectrum is a copy of initial_spectrum
Init ==
    \E r \in Responses :
      \E meas \in [1..Len(r) -> MeasValues] :
        \E spec \in [1..Len(r[1]) -> SpecValues] :
          \E e \in Errors :
            /\ nns_response = Mat(r)
            /\ measurements = Vec(meas)
            /\ num_measurements = Len(r)
            /\ num_bins = Len(r[1])
            /\ initial_spectrum = Vec(spec)
            /\ spectrum = Vec(spec)
            /\ error = e
            /\ cutoff = 0
            /\ mlem_index = 0
            /\ mlem_estimate = << >>
            /\ mlem_ratio = << >>
            /\ continue_mlem = FALSE
            /\ num_iterations = 0
            /\ pc = "main"
            /\ cutoffs = << >>
            /\ spectrum_in = Vec(spec)
            /\ updates = 0
            /\ broke = FALSE
            /\ breaks = 0
            /\ zero_estimate = FALSE
            /\ spectrum_before = Vec(spec)
            /\ MlemIdle
            /\ AutoIdle

\* ------------------------------------------------------------------------
\* Actions
\* ------------------------------------------------------------------------
\* the caller invokes runMLEM(c, error, ..., spectrum, ..., mlem_ratio);
\* mlem_index = 1
Call(c) ==
    /\ pc = "main"
    /\ Len(cutoffs) < MaxCalls
    /\ cutoff' = c
    /\ mlem_index' = 1
    /\ pc' = "for"
    /\ cutoffs' = Append(cutoffs, c)
    /\ spectrum_in' = spectrum
    /\ updates' = 0
    /\ broke' = FALSE
    /\ zero_estimate' = FALSE
    /\ UNCHANGED << inputs, spectrum, mlem_estimate, mlem_ratio,
                    continue_mlem, num_iterations, breaks,
                    spectrum_before, mlem_vars, auto_vars >>

\* for (...; mlem_index < cutoff; ...)
ForTest ==
    /\ pc = "for"
    /\ pc' = IF ForCondition(mlem_index, cutoff) THEN "estimate" ELSE "return"
    /\ UNCHANGED << inputs, spectrum, cutoff, mlem_index, mlem_estimate,
                    mlem_ratio, continue_mlem, num_iterations, cutoffs,
                    spectrum_in, updates, broke, breaks, zero_estimate,
                    spectrum_before, mlem_vars, auto_vars >>

\* the projection reads nns_response[i_meas][i_bin] for every i_meas below
\* nm and every i_bin below nb: all of these elements exist
ResponseInRange(resp, nm, nb) ==
    /\ Len(resp) >= nm
    /\ \A i \in 1..nm : Len(resp[i]) >= nb

\* mlem_ratio.clear(); mlem_estimate = response x spectrum
Project ==
    /\ pc = "estimate"
    /\ ResponseInRange(nns_response, num_measurements, num_bins)
    /\ mlem_ratio' = << >>
    /\ mlem_estimate' = MlemEstimate(nns_response, spectrum, num_measurements, num_bins)
    /\ zero_estimate' = (zero_estimate \/ \E m \in 1..num_measurements : mlem_estimate'[m] = Zero)
    /\ pc' = "ratio"
    /\ UNCHANGED << inputs, spectrum, cutoff, mlem_index, continue_mlem,
                    num_iterations, cutoffs, spectrum_in, updates, broke, breaks,
                    spectrum_before, mlem_vars, auto_vars >>

\* mlem_ratio[i_meas] = measurements[i_meas] / mlem_estimate[i_meas]
Ratio ==
    /\ pc = "ratio"
    /\ mlem_ratio' = MlemRatio(measurements, mlem_estimate, num_measurements)
    /\ pc' = "update"
    /\ UNCHANGED << inputs, spectrum, cutoff, mlem_index, mlem_estimate,
                    continue_mlem, num_iterations, cutoffs, spectrum_in,
                    updates, broke, breaks, zero_estimate,
                    spectrum_before, mlem_vars, auto_vars >>

\* correction, normalization and the multiplicative update of spectrum
Update ==
    /\ pc = "update"
    /\ spectrum' = NewSpectrum(nns_response, spectrum, mlem_ratio, num_measurements, num_bins)
    /\ spectrum_before' = spectrum
    /\ updates' = updates + 1
    /\ pc' = "test"
    /\ UNCHANGED << inputs, cutoff, mlem_index, mlem_estimate, mlem_ratio,
                    continue_mlem, num_iterations, cutoffs, spectrum_in,
                    broke, breaks, zero_estimate, mlem_vars,
                    auto_vars >>

\* faulty variant: the updated spectrum is projected again and the test
\* reads the ratios of that fresh projection
TestReprojected ==
    /\ pc = "test"
    /\ mlem_ratio' = MlemRatio(measurements,
                               MlemEstimate(nns_response, spectrum, num_measurements, num_bins),
                               num_measurements)
    /\ continue_mlem' = ContinueMlem(mlem_ratio', error, num_measurements)
    /\ IF continue_mlem'
       THEN /\ mlem_index' = mlem_index + 1
            /\ pc' = "for"
            /\ UNCHANGED << broke, breaks >>
       ELSE /\ pc' = "return"
            /\ broke' = TRUE
            /\ breaks' = breaks + 1
            /\ UNCHANGED mlem_index
    /\ UNCHANGED << inputs, spectrum, cutoff, mlem_estimate,
                    num_iterations, cutoffs, spectrum_in, updates, zero_estimate,
                    spectrum_before, mlem_vars, auto_vars >>

\* the tolerance test: break, or mlem_index++ and back to the loop condition
Test ==
    /\ pc = "test"
    /\ continue_mlem' = ContinueMlem(mlem_ratio, error, num_measurements)
    /\ IF continue_mlem'
       THEN /\ mlem_index' = mlem_index + 1
            /\ pc' = "for"
            /\ UNCHANGED << broke, breaks >>
       ELSE /\ pc' = "return"
            /\ broke' = TRUE
            /\ breaks' = breaks + 1
            /\ UNCHANGED mlem_index
    /\ UNCHANGED << inputs, spectrum, cutoff, mlem_estimate, mlem_ratio,
                    num_iterations, cutoffs, spectrum_in, updates, zero_estimate,
                    spectrum_before, mlem_vars, auto_vars >>

\* return mlem_index; the caller stores it in num_iterations
Return ==
    /\ pc = "return"
    /\ num_iterations' = ReturnValue(mlem_index)
    /\ pc' = "main"
    /\ UNCHANGED << inputs, spectrum, cutoff, mlem_index, mlem_estimate,
                    mlem_ratio, continue_mlem, cutoffs, spectrum_in, updates,
                    broke, breaks, zero_estimate,
                    spectrum_before, mlem_vars, auto_vars >>

\* one step of runMLEM
runMLEM == ForTest \/ Project \/ Ratio \/ Update \/ Test \/ Return

Next == (\E c \in Cutoffs : Call(c)) \/ runMLEM

Spec == Init /\ [][Next]_vars

\* a call that has started runs on: the program is sequential
FairSpec == Spec /\ WF_vars(runMLEM)

\* a call of runMLEM has returned and the caller has its result
Returned == pc = "main" /\ Len(cutoffs) > 0

\* ------------------------------------------------------------------------
\* The mlem program: main of src/mlem/main.cpp around its call of runMLEM
\*
\* The input files are read when main reaches them; what was read of the
\* spectrum file is kept in input_files, because the Poisson resampling
\* reads that file again. A statement whose behaviour the language leaves
\* undefined (an element read outside a vector) takes the program to
\* pc = "undefined": from there on anything may happen, and the model does
\* not follow the execution further.
\* ------------------------------------------------------------------------
\* The Poisson resampling, the uncertainty and the dose are written for 8
\* measurements and 52 bins, as literals. The inputs of the model have up
\* to 2 measurements and 2 bins, and the two literals are scaled with them.
height3 == 2
height_data == 2

\* largest number of Poisson replicates a configuration asks for
MaxSamples == 2

\* the configuration files: the first three pairs and the cap of 4 are
\* valid settings, the others have a cap that is not positive, a tolerance
\* outside (0,1) and a number of replicates that is not positive
ConfigFiles ==
    { [cutoff |-> c[1], error |-> c[2], num_poisson_samples |-> n] :
        c \in { <<3, <<1, 100>> >>, <<2, <<1, 2>> >>, <<1, <<1, 100>> >> },
        n \in 1..MaxSamples }
    \cup { [cutoff |-> 4, error |-> <<1, 100>>, num_poisson_samples |-> 1],
           [cutoff |-> 0, error |-> <<1, 100>>, num_poisson_samples |-> 1],
           [cutoff |-> 3, error |-> <<3, 2>>, num_poisson_samples |-> 1],
           [cutoff |-> 3, error |-> <<1, 100>>, num_poisson_samples |-> 0] }

\* the measurement files (values in cps)
MeasurementFiles == { <<2, 3>>, <<0, 3>>, <<0, 0>>, <<3>>, << >> }

\* the numbers of lines of the energy bins file
EnergyBinCounts == 0..2

\* the response files: one row per line. Besides rectangular matrices, a
\* file whose second row is short, a file of two empty lines, an empty file
ResponseFiles ==
    { << <<1, 0>>, <<0, 1>> >>,
      << <<1>>, <<1>> >>,
      << <<1, 1>> >>,
      << <<1, 0>>, <<1>> >>,
      << << >>, << >> >>,
      << >> }

\* the input spectrum files: the value of every line, whether the lines
\* carry a comma after the value, whether the last line ends with a newline
SpectrumFiles ==
    { [values |-> v, comma |-> f[1], newline |-> f[2]] :
        v \in { <<1, 1>>, <<2, 1>>, <<0, 0>>, <<1>>, << >> },
        f \in { <<TRUE, TRUE>>, <<TRUE, FALSE>>, <<FALSE, TRUE>> } }

\* no spectrum file read yet
NoFiles == [spectrum |-> [values |-> << >>, comma |-> TRUE, newline |-> TRUE]]

\* the ICRP factor files (pSv cm^2); 25000 pSv cm^2 is 0.09 mSv/h per unit
\* of fluence rate, which keeps the doses short decimals
IcrpFiles == { <<25000, 50000>>, <<0, 25000>>, <<25000>>, << >> }

\* the values an element holds that was never assigned
Indeterminate == { Zero, <<4, 1>> }

\* the counts poisson() draws for a mean lambda: a non-negative integer,
\* 0 for a mean of 0; here 1 or the mean itself
Poisson(lambda) ==
    IF lambda = Zero THEN { Zero }
    ELSE { One, <<lambda[1] \div lambda[2], 1>> }

\* the names of the four dimension checks of main
DimensionChecks ==
    { "response rows", "response columns", "input spectrum", "icrp factors" }

\* faulty variant: only a test size above the reference size is refused
checkDimensionsAtMost(reference_size, test_size) == test_size <= reference_size

\* checkDimensions returns (TRUE) or throws std::logic_error (FALSE)
checkDimensions(reference_size, test_size) == reference_size = test_size

\* readInputFile1D: one value per line, the text before the first comma
readInputFile1D(file) == Vec(file.values)

\* the Poisson loop's reading of the spectrum file stores the value of line
\* row only if the stream is still good() after the line was read (the line
\* ended with a newline) and after the value was read (a comma followed it)
StoredByReread(file, row) ==
    /\ row <= Len(file.values)
    /\ file.comma
    /\ (row < Len(file.values) \/ file.newline)

\* ini_poisson after the file was read again: an element that is not stored
\* keeps what it held, which is indeterminate if it was never assigned
RereadSpectrum(file, ini) ==
    { [row \in 1..height3 |->
          IF StoredByReread(file, row) THEN <<file.values[row], 1>>
          ELSE IF ini = << >> THEN g[row] ELSE ini[row]]
      : g \in [1..height3 -> Indeterminate] }

\* the replicate loop reads nns_response[i][k], icrp_factors[k] for i < 8
\* and k < 52: all of these elements exist
PoissonInRange(resp, icrp) ==
    /\ ResponseInRange(resp, height_data, height3)
    /\ Len(icrp) >= height3

\* faulty variant: the factor is added to the fluence instead of multiplied
MultiplicationAdded(spec, icrp, i) == FAdd(spec[i], icrp[i])

\* multiplication[i][0] = spectrum[i]*icrp_factors[i]
Multiplication(spec, icrp, i) == FMul(spec[i], icrp[i])

\* d += multiplication[i][j], i = 0..k-1
RECURSIVE DoseSum(_, _, _)
DoseSum(spec, icrp, k) ==
    IF k = 0 THEN Zero
    ELSE FAdd(DoseSum(spec, icrp, k - 1), Multiplication(spec, icrp, k))

\* dose = (d)*(3600)*(1e-9)
Dose(spec, icrp) ==
    FMul(FMul(DoseSum(spec, icrp, height3), <<3600, 1>>), <<1, 1000000000>>)

\* one pass of the replicate loop: the spectrum from the sampled data
PoissonSpectrum(resp, ini, data) ==
    NewSpectrum(resp, ini,
                MlemRatio(data, MlemEstimate(resp, ini, height_data, height3), height_data),
                height_data, height3)

\* the replicate loop's test: every ratio strictly inside the tolerance
PoissonBreak(resp, ini, data, err) ==
    LET r_poisson == MlemRatio(data, MlemEstimate(resp, ini, height_data, height3),
                               height_data)
    IN  \A i \in 1..height_data :
            FLT(r_poisson[i], FAdd(One, err)) /\ FGT(r_poisson[i], FSub(One, err))

\* the replicate loop for (int i = 1; i < cutoff; i++) entered with index
\* i: the spectrum and the dose it leaves, and the number of passes made
RECURSIVE RunPoisson(_, _, _, _, _, _, _, _)
RunPoisson(i, c, err, data, ini, resp, icrp, dstd) ==
    IF ~(i < c) THEN [ini_poisson |-> ini, dose_std |-> dstd, passes |-> 0]
    ELSE LET new == PoissonSpectrum(resp, ini, data)
         IN  IF PoissonBreak(resp, ini, data, err)
             THEN [ini_poisson |-> new, dose_std |-> Dose(new, icrp), passes |-> 1]
             ELSE LET rest == RunPoisson(i + 1, c, err, data, new, resp, icrp,
                                         Dose(new, icrp))
                  IN  [rest EXCEPT !.passes = @ + 1]

\* sq[i][j] += (poissmat[i][k]-spectrum[i])*(poissmat[i][k]-spectrum[i]),
\* k = 0..n-1, on top of what sq[i][j] held
RECURSIVE SquaresSum(_, _, _, _, _)
SquaresSum(held, mat, spec, i, n) ==
    IF n = 0 THEN held
    ELSE LET deviation == FSub(mat[n][i], spec[i])
         IN  FAdd(SquaresSum(held, mat, spec, i, n - 1), FMul(deviation, deviation))

\* faulty variant: the deviation of the dose is not squared
DoseDeviationUnsquared(mat, d, j) == FSub(mat[j], d)

\* (dosemat[i][j]-dose)*(dosemat[i][j]-dose)
DoseDeviationSquared(mat, d, j) ==
    FMul(FSub(mat[j], d), FSub(mat[j], d))

\* sq_dose: starts at 0, += the squared deviation of replicate j, j < n
RECURSIVE SqDose(_, _, _)
SqDose(mat, d, n) ==
    IF n <= 0 THEN Zero
    ELSE FAdd(SqDose(mat, d, n - 1), DoseDeviationSquared(mat, d, n))

\* sqrt(x): the non-negative root of its radicand; NaN for a negative x
Sqrt(x0) ==
    CHOOSE r \in { [radicand |-> IF FLT(x, Zero) THEN NaN ELSE x] : x \in {x0} } : TRUE

\* main before its first statement
MainInit ==
    /\ nns_response = << >>
    /\ measurements = << >>
    /\ num_measurements = 0
    /\ num_bins = 0
    /\ initial_spectrum = << >>
    /\ spectrum = << >>
    /\ error = Zero
    /\ cutoff = 0
    /\ mlem_index = 0
    /\ mlem_estimate = << >>
    /\ mlem_ratio = << >>
    /\ continue_mlem = FALSE
    /\ num_iterations = 0
    /\ pc = "start"
    /\ cutoffs = << >>
    /\ spectrum_in = << >>
    /\ updates = 0
    /\ broke = FALSE
    /\ breaks = 0
    /\ zero_estimate = FALSE
    /\ spectrum_before = << >>
    /\ input_files = NoFiles
    /\ num_poisson_samples = 0
    /\ icrp_factors = << >>
    /\ exception = "none"
    /\ checked = {}
    /\ PoissonIdle
    /\ AutoIdle

\* what runMLEM works on, besides the inputs
solver_vars ==
    << spectrum, cutoff, mlem_index, mlem_estimate, mlem_ratio, continue_mlem,
       num_iterations, cutoffs, spectrum_in, updates, broke, breaks,
       zero_estimate, spectrum_before >>

poisson_vars ==
    << m_poisson, ini_poisson, data_poisson, dose_std, poissmat, dosemat, sq,
       sq_average, s, dose, s_dose >>

\* throw std::logic_error: nothing catches it, the program is terminated
Throw(what) ==
    /\ exception' = what
    /\ pc' = "terminated"

\* setSettings: cutoff, error and num_poisson_samples are assigned as read
SetSettings ==
    /\ pc = "start"
    /\ \E config \in ConfigFiles :
         /\ cutoff' = config.cutoff
         /\ error' = config.error
         /\ num_poisson_samples' = config.num_poisson_samples
    /\ pc' = "getMeasurements"
    /\ UNCHANGED << nns_response, measurements, num_measurements, num_bins,
                    initial_spectrum, spectrum, mlem_index, mlem_estimate,
                    mlem_ratio, continue_mlem, num_iterations, cutoffs,
                    spectrum_in, updates, broke, breaks, zero_estimate,
                    spectrum_before, input_files, icrp_factors, exception,
                    checked, poisson_vars, auto_vars >>

\* getMeasurements, then the loop that prints measurements[0..7]: with
\* fewer measurements it reads past the end of the vector
GetMeasurements ==
    /\ pc = "getMeasurements"
    /\ \E file \in MeasurementFiles :
         /\ measurements' = Vec(file)
         /\ num_measurements' = Len(file)
         /\ pc' \in (IF Len(file) >= height_data THEN { "readResponse" }
                     ELSE { "readResponse", "undefined" })
    /\ UNCHANGED << nns_response, num_bins, initial_spectrum, error,
                    solver_vars, mlem_vars, auto_vars >>

\* energy_bins and nns_response are read; num_bins = energy_bins.size()
ReadResponse ==
    /\ pc = "readResponse"
    /\ \E bins \in EnergyBinCounts : num_bins' = bins
    /\ \E file \in ResponseFiles : nns_response' = Mat(file)
    /\ pc' = "checkRows"
    /\ UNCHANGED << measurements, num_measurements, initial_spectrum, error,
                    solver_vars, mlem_vars, auto_vars >>

\* checkDimensions(num_measurements, ..., nns_response.size(), ...)
CheckRows ==
    /\ pc = "checkRows"
    /\ checked' = checked \cup { "response rows" }
    /\ IF checkDimensions(num_measurements, Len(nns_response))
       THEN pc' = "checkColumns" /\ UNCHANGED exception
       ELSE Throw("File dimensions mismatch")
    /\ UNCHANGED << inputs, solver_vars, input_files, num_poisson_samples,
                    icrp_factors, poisson_vars, auto_vars >>

\* checkDimensions(num_bins, ..., nns_response[0].size(), ...): the size of
\* the first row; of an empty nns_response no first row exists
CheckColumns ==
    /\ pc = "checkColumns"
    /\ checked' = checked \cup { "response columns" }
    /\ IF nns_response = << >>
       THEN pc' = "undefined" /\ UNCHANGED exception
       ELSE IF checkDimensions(num_bins, Len(nns_response[1]))
            THEN pc' = "readSpectrum" /\ UNCHANGED exception
            ELSE Throw("File dimensions mismatch")
    /\ UNCHANGED << inputs, solver_vars, input_files, num_poisson_samples,
                    icrp_factors, poisson_vars, auto_vars >>

\* initial_spectrum is read and checked; spectrum = initial_spectrum
ReadSpectrum ==
    /\ pc = "readSpectrum"
    /\ checked' = checked \cup { "input spectrum" }
    /\ \E file \in SpectrumFiles :
         /\ input_files' = [spectrum |-> file]
         /\ initial_spectrum' = readInputFile1D(file)
         /\ IF checkDimensions(num_bins, Len(initial_spectrum'))
            THEN /\ spectrum' = initial_spectrum'
                 /\ pc' = "readIcrp"
                 /\ UNCHANGED exception
            ELSE /\ Throw("File dimensions mismatch")
                 /\ UNCHANGED spectrum
    /\ UNCHANGED << nns_response, measurements, num_measurements, num_bins,
                    error, cutoff, mlem_index, mlem_estimate, mlem_ratio,
                    continue_mlem, num_iterations, cutoffs, spectrum_in,
                    updates, broke, breaks, zero_estimate, spectrum_before,
                    num_poisson_samples, icrp_factors, poisson_vars,
                    auto_vars >>

\* icrp_factors is read and checked
ReadIcrp ==
    /\ pc = "readIcrp"
    /\ checked' = checked \cup { "icrp factors" }
    /\ \E file \in IcrpFiles :
         /\ icrp_factors' = readInputFile1D([values |-> file])
         /\ IF checkDimensions(num_bins, Len(icrp_factors'))
            THEN pc' = "main" /\ UNCHANGED exception
            ELSE Throw("File dimensions mismatch")
    /\ UNCHANGED << inputs, solver_vars, input_files, num_poisson_samples,
                    poisson_vars, auto_vars >>

\* int num_iterations = runMLEM(cutoff, error, ...): main's only call
MainCall ==
    /\ cutoffs = << >>
    /\ Call(cutoff)

\* the projection of runMLEM reads a row of nns_response past its end
OutOfRange ==
    /\ pc = "estimate"
    /\ ~ResponseInRange(nns_response, num_measurements, num_bins)
    /\ pc' = "undefined"
    /\ UNCHANGED << inputs, solver_vars, mlem_vars, auto_vars >>

\* after runMLEM: the results are printed (mlem_ratio[i_meas] for every
\* measurement: with fewer ratios it reads past the end of the vector), the
\* arrays of the Poisson resampling are declared and the loop over the
\* replicates is entered
BeginPoisson ==
    /\ pc = "main"
    /\ Len(cutoffs) = 1
    /\ m_poisson' = 0
    /\ dose_std' = Zero
    /\ pc' \in { IF 0 < num_poisson_samples THEN "reread" ELSE "sumsq" }
                \cup (IF Len(mlem_ratio) < num_measurements
                      THEN { "undefined" } ELSE { })
    /\ UNCHANGED << inputs, solver_vars, input_files, num_poisson_samples,
                    icrp_factors, exception, checked, ini_poisson,
                    data_poisson, poissmat, dosemat, sq, sq_average, s, dose, s_dose,
                    auto_vars >>

\* replicate m: the input spectrum file is read again, into ini_poisson
ReadIniPoisson ==
    /\ pc = "reread"
    /\ ini_poisson' \in RereadSpectrum(input_files.spectrum, ini_poisson)
    /\ pc' = "sample"
    /\ UNCHANGED << inputs, solver_vars, input_files, num_poisson_samples,
                    icrp_factors, exception, checked, m_poisson, data_poisson,
                    dose_std, poissmat, dosemat, sq, sq_average, s, dose, s_dose,
                    auto_vars >>

\* faulty variant: the sampled values replace the measurements themselves
SamplePoissonInPlace ==
    /\ pc = "sample"
    /\ IF num_measurements < height_data
       THEN pc' = "undefined" /\ UNCHANGED << data_poisson, measurements >>
       ELSE /\ data_poisson' \in
                 { d \in [1..height_data -> UNION { Poisson(measurements[i]) : i \in 1..height_data }] :
                     \A i \in 1..height_data : d[i] \in Poisson(measurements[i]) }
            /\ measurements' = data_poisson'
            /\ pc' = "unfold"
    /\ UNCHANGED << nns_response, num_measurements, num_bins, initial_spectrum,
                    error, solver_vars, input_files, num_poisson_samples,
                    icrp_factors, exception, checked, m_poisson, ini_poisson,
                    dose_std, poissmat, dosemat, sq, sq_average, s, dose, s_dose,
                    auto_vars >>

\* data_poisson[i][0] = poisson(measurements[i]) for i < 8
SamplePoisson ==
    /\ pc = "sample"
    /\ IF num_measurements < height_data
       THEN pc' = "undefined" /\ UNCHANGED data_poisson
       ELSE /\ data_poisson' \in
                 { d \in [1..height_data -> UNION { Poisson(measurements[i]) : i \in 1..height_data }] :
                     \A i \in 1..height_data : d[i] \in Poisson(measurements[i]) }
            /\ pc' = "unfold"
    /\ UNCHANGED << inputs, solver_vars, input_files, num_poisson_samples,
                    icrp_factors, exception, checked, m_poisson, ini_poisson,
                    dose_std, poissmat, dosemat, sq, sq_average, s, dose, s_dose,
                    auto_vars >>

\* the replicate's MLEM loop, written out in main for 8 x 52
ReplicateMLEM ==
    /\ pc = "unfold"
    /\ IF ~PoissonInRange(nns_response, icrp_factors) /\ 1 < cutoff
       THEN pc' = "undefined" /\ UNCHANGED << ini_poisson, dose_std >>
       ELSE LET run == RunPoisson(1, cutoff, error, data_poisson, ini_poisson,
                                  nns_response, icrp_factors, dose_std)
            IN  /\ ini_poisson' = run.ini_poisson
                /\ dose_std' = run.dose_std
                /\ pc' = "store"
    /\ UNCHANGED << inputs, solver_vars, input_files, num_poisson_samples,
                    icrp_factors, exception, checked, m_poisson, data_poisson,
                    poissmat, dosemat, sq, sq_average, s, dose, s_dose, auto_vars >>

\* poissmat[i][m] = ini_poisson[i][0]; dosemat[0][m] = dose_std; m++
StoreReplicate ==
    /\ pc = "store"
    /\ poissmat' = Append(poissmat, ini_poisson)
    /\ dosemat' = Append(dosemat, dose_std)
    /\ m_poisson' = m_poisson + 1
    /\ pc' = IF m_poisson' < num_poisson_samples THEN "reread" ELSE "sumsq"
    /\ UNCHANGED << inputs, solver_vars, input_files, num_poisson_samples,
                    icrp_factors, exception, checked, ini_poisson,
                    data_poisson, dose_std, sq, sq_average, s, dose, s_dose,
                    auto_vars >>

\* double sq[52][1] is declared without a value and summed into; the sum
\* reads spectrum[i] for i < 52
SumSquares ==
    /\ pc = "sumsq"
    /\ IF Len(spectrum) < height3
       THEN pc' = "undefined" /\ UNCHANGED sq
       ELSE /\ \E held \in [1..height3 -> Indeterminate] :
                 sq' = [i \in 1..height3 |->
                          SquaresSum(held[i], poissmat, spectrum, i, Len(poissmat))]
            /\ pc' = "uncertainty"
    /\ UNCHANGED << inputs, solver_vars, input_files, num_poisson_samples,
                    icrp_factors, exception, checked, m_poisson, ini_poisson,
                    data_poisson, dose_std, poissmat, dosemat, sq_average, s,
                    dose, s_dose, auto_vars >>

\* sq_average = sq / num_poisson_samples; s = sqrt(sq_average)
Uncertainty ==
    /\ pc = "uncertainty"
    /\ sq_average' = [i \in 1..height3 |-> FDiv(sq[i], <<num_poisson_samples, 1>>)]
    /\ s' = [i \in 1..height3 |-> Sqrt(sq_average'[i])]
    /\ pc' = "dose"
    /\ UNCHANGED << inputs, solver_vars, input_files, num_poisson_samples,
                    icrp_factors, exception, checked, m_poisson, ini_poisson,
                    data_poisson, dose_std, poissmat, dosemat, sq, dose, s_dose,
                    auto_vars >>

\* the dose of the reference spectrum
ComputeDose ==
    /\ pc = "dose"
    /\ dose' = Dose(spectrum, icrp_factors)
    /\ pc' = "doseError"
    /\ UNCHANGED << inputs, solver_vars, input_files, num_poisson_samples,
                    icrp_factors, exception, checked, m_poisson, ini_poisson,
                    data_poisson, dose_std, poissmat, dosemat, sq, sq_average,
                    s, s_dose, auto_vars >>

\* sq_dose = 0, summed over the replicates; sq_average_dose; s_dose
DoseUncertainty ==
    /\ pc = "doseError"
    /\ s_dose' = Sqrt(FDiv(SqDose(dosemat, dose, num_poisson_samples),
                           <<num_poisson_samples, 1>>))
    /\ pc' = "done"
    /\ UNCHANGED << inputs, solver_vars, input_files, num_poisson_samples,
                    icrp_factors, exception, checked, m_poisson, ini_poisson,
                    data_poisson, dose_std, poissmat, dosemat, sq, sq_average,
                    s, dose, auto_vars >>

MainNext ==
    \/ SetSettings \/ GetMeasurements \/ ReadResponse \/ CheckRows
    \/ CheckColumns \/ ReadSpectrum \/ ReadIcrp \/ MainCall \/ runMLEM
    \/ OutOfRange \/ BeginPoisson \/ ReadIniPoisson \/ SamplePoisson
    \/ ReplicateMLEM \/ StoreReplicate \/ SumSquares \/ Uncertainty
    \/ ComputeDose \/ DoseUncertainty

MainSpec == MainInit /\ [][MainNext]_vars

\* ------------------------------------------------------------------------
\* The auto-unfold program: the mlem sweep and the map sweep
\* ------------------------------------------------------------------------
\* the largest number of iteration checkpoints of a sweep
MaxCheckpoints == 2

\* linearSpacedDoubleVector(current_beta, current_beta*10, 10)
BetasPerDecade == 10

\* the selectors the POI chain of the mlem sweep handles
MlemParameters ==
    { "total_fluence", "total_dose", "max_mlem_ratio", "avg_mlem_ratio",
      "j_factor", "reduced_chi_squared", "rms", "nrmsd", "chi_squared_g" }

\* the selectors the POI chain of the map sweep handles
MapParameters ==
    { "total_fluence", "total_dose", "total_energy_correction",
      "max_mlem_ratio", "avg_mlem_ratio" }

Handled(algorithm) ==
    IF algorithm = "mlem" THEN MlemParameters ELSE MapParameters

\* the selectors a settings file may name: "fluence" is handled by neither
\* sweep
ParameterNames == MlemParameters \cup MapParameters \cup { "fluence" }

\* the beta ranges of a settings file: within one decade, one decade
BetaRanges ==
    { [min_beta |-> <<1, 1000>>, max_beta |-> b] :
        b \in { <<1, 1000>>, <<5, 1000>>, <<1, 100>> } }

\* the settings of a sweep, as read from the settings file
SweepSettings ==
    { [ algorithm |-> a, parameter_of_interest |-> p, derivatives |-> d,
        min_num_iterations |-> 1, max_num_iterations |-> n,
        iteration_increment |-> 1,
        min_beta |-> r.min_beta, max_beta |-> r.max_beta ] :
        a \in { "mlem", "map" }, p \in ParameterNames, d \in BOOLEAN,
        n \in 1..MaxCheckpoints, r \in BetaRanges }

\* one cell of the results: what it shows, for which beta and checkpoint
Cell(kind, beta, num) == [kind |-> kind, beta |-> beta, num |-> num]

EndOfRow == Cell("newline", 0, 0)

\* the output file before the sweep: absent or empty, or holding the rows
\* of an earlier sweep
ExistingOutput == { << >>, << Cell("earlier", 0, 0), EndOfRow >> }

\* int num_orders_magnitude = log10(r), for a finite r >= 1
RECURSIVE Log10Int(_)
Log10Int(r) ==
    IF FLT(r, <<10, 1>>) THEN 0 ELSE 1 + Log10Int(FDiv(r, <<10, 1>>))

\* beta_vector.size(): ten values for every whole decade of the range
NumBetaSamples(st) ==
    BetasPerDecade * Log10Int(FDiv(st.max_beta, st.min_beta))

\* n integers from a to b, evenly spaced
linearSpacedIntegerVector(a, b, n) ==
    [k \in 1..n |-> IF n = 1 THEN a ELSE a + ((k - 1) * (b - a)) \div (n - 1)]

\* num_iterations_vector of a sweep
NumIterationsVector(st) ==
    LET num_increments ==
            ((st.max_num_iterations - st.min_num_iterations)
                \div st.iteration_increment) + 1
    IN  linearSpacedIntegerVector(st.min_num_iterations,
                                  st.max_num_iterations, num_increments)

\* the cells of the iteration numbers in a header row
IterationCells(vector) ==
    [k \in 1..Len(vector) |-> Cell("iterations", 0, vector[k])]

\* the spectra a solver call of a sweep (runMLEM with its work vectors,
\* runMAP) may leave in the spectrum passed to it: num_bins values
SolverSpectra == { Vec(v) : v \in [1..num_bins -> {1, 2}] }

\* what a sweep leaves alone: the loaded inputs and the rest of the state
loaded_vars ==
    << inputs, solver_vars, input_files, num_poisson_samples, icrp_factors,
       checked, poisson_vars >>

\* main at the sweeps: the inputs are loaded and their dimensions agree,
\* the settings are as read from the settings file
AutoInit ==
    /\ nns_response = Scenario.nns_response
    /\ measurements = Scenario.measurements
    /\ num_measurements = Len(Scenario.measurements)
    /\ num_bins = Len(Scenario.spectrum)
    /\ initial_spectrum = Scenario.spectrum
    /\ spectrum = Scenario.spectrum
    /\ error = Scenario.error
    /\ cutoff = 0
    /\ mlem_index = 0
    /\ mlem_estimate = << >>
    /\ mlem_ratio = << >>
    /\ continue_mlem = FALSE
    /\ num_iterations = 0
    /\ pc = "sweep"
    /\ cutoffs = << >>
    /\ spectrum_in = Scenario.spectrum
    /\ updates = 0
    /\ broke = FALSE
    /\ breaks = 0
    /\ zero_estimate = FALSE
    /\ spectrum_before = Scenario.spectrum
    /\ MlemIdle
    /\ settings \in SweepSettings
    /\ i_beta = 0
    /\ i_num = 0
    /\ results_stream = << >>
    /\ derivative_poi_values = << >>
    /\ current_spectrum = << >>
    /\ output_file \in ExistingOutput

\* the mlem sweep up to its loop: the header row, if the output file is
\* empty
MlemHeader ==
    /\ pc = "sweep"
    /\ settings.algorithm = "mlem"
    /\ results_stream' =
         IF output_file = << >>
         THEN << Cell("Number of iterations", 0, 0) >>
                \o IterationCells(NumIterationsVector(settings))
                \o << EndOfRow >>
         ELSE << >>
    /\ i_num' = 0
    /\ current_spectrum' = initial_spectrum
    /\ pc' = "mlemLoop"
    /\ UNCHANGED << loaded_vars, exception, settings, i_beta,
                    derivative_poi_values, output_file >>

\* one pass of the mlem sweep's loop: the solver advances the spectrum,
\* then the POI chain selects the value to report
MlemCheckpoint ==
    /\ pc = "mlemLoop"
    /\ i_num < Len(NumIterationsVector(settings))
    /\ current_spectrum' \in SolverSpectra
    /\ IF settings.parameter_of_interest \in MlemParameters
       THEN LET poi_value == Cell(settings.parameter_of_interest, 0, i_num)
                label == IF i_num = 0 THEN << Cell("label", 0, 0) >> ELSE << >>
                last == i_num = Len(NumIterationsVector(settings)) - 1
            IN  /\ results_stream' =
                     results_stream \o label
                        \o (IF settings.derivatives THEN << >>
                            ELSE IF last THEN << poi_value, EndOfRow >>
                            ELSE << poi_value >>)
                /\ derivative_poi_values' =
                     IF settings.derivatives
                     THEN Append(derivative_poi_values, poi_value)
                     ELSE derivative_poi_values
                /\ i_num' = i_num + 1
                /\ UNCHANGED << pc, exception >>
       ELSE /\ Throw("Unrecognized parameter of interest")
            /\ UNCHANGED << results_stream, derivative_poi_values, i_num >>
    /\ UNCHANGED << loaded_vars, settings, i_beta, output_file >>

\* after the mlem sweep's loop: the derivatives, if asked for, then the
\* results are appended to the output file
MlemSave ==
    /\ pc = "mlemLoop"
    /\ i_num = Len(NumIterationsVector(settings))
    /\ results_stream' =
         IF settings.derivatives
         THEN results_stream
                \o [k \in 1..i_num |-> Cell("derivative", 0, k - 1)]
                \o << EndOfRow >>
         ELSE results_stream
    /\ output_file' = output_file \o results_stream'
    /\ pc' = "done"
    /\ UNCHANGED << loaded_vars, exception, settings, i_beta, i_num,
                    derivative_poi_values, current_spectrum >>

\* the map sweep up to its loops: the beta vector and the header row
MapHeader ==
    /\ pc = "sweep"
    /\ settings.algorithm = "map"
    /\ results_stream' =
         << Cell("0", 0, 0) >>
            \o IterationCells(NumIterationsVector(settings))
            \o << EndOfRow >>
    /\ i_beta' = 0
    /\ pc' = "mapLoop"
    /\ UNCHANGED << loaded_vars, exception, settings, i_num,
                    derivative_poi_values, current_spectrum, output_file >>

\* faulty variant: the spectrum is not re-initialized for the beta
MapBetaCarriedOver ==
    /\ pc = "mapLoop"
    /\ i_beta < NumBetaSamples(settings)
    /\ results_stream' = Append(results_stream, Cell("beta", i_beta, 0))
    /\ i_num' = 0
    /\ pc' = "mapRow"
    /\ UNCHANGED << loaded_vars, exception, settings, i_beta,
                    derivative_poi_values, current_spectrum, output_file >>

\* one pass of the loop through the betas, up to the inner loop:
\* current_spectrum = initial_spectrum, the beta opens its row
MapBeta ==
    /\ pc = "mapLoop"
    /\ i_beta < NumBetaSamples(settings)
    /\ current_spectrum' = initial_spectrum
    /\ results_stream' = Append(results_stream, Cell("beta", i_beta, 0))
    /\ i_num' = 0
    /\ pc' = "mapRow"
    /\ UNCHANGED << loaded_vars, exception, settings, i_beta,
                    derivative_poi_values, output_file >>

\* one pass of the map sweep's inner loop: the solver advances the
\* spectrum, then the POI chain selects the value
MapCheckpoint ==
    /\ pc = "mapRow"
    /\ i_num < Len(NumIterationsVector(settings))
    /\ current_spectrum' \in SolverSpectra
    /\ IF settings.parameter_of_interest \in MapParameters
       THEN LET poi_value == Cell(settings.parameter_of_interest, i_beta, i_num)
                last == i_num = Len(NumIterationsVector(settings)) - 1
            IN  /\ results_stream' =
                     results_stream
                        \o (IF last THEN << poi_value, EndOfRow >>
                            ELSE << poi_value >>)
                /\ i_num' = i_num + 1
                /\ UNCHANGED << pc, exception >>
       ELSE /\ Throw("Unrecognized parameter of interest")
            /\ UNCHANGED << results_stream, i_num >>
    /\ UNCHANGED << loaded_vars, settings, i_beta, derivative_poi_values,
                    output_file >>

\* the inner loop is over: on to the next beta
MapRowEnd ==
    /\ pc = "mapRow"
    /\ i_num = Len(NumIterationsVector(settings))
    /\ i_beta' = i_beta + 1
    /\ pc' = "mapLoop"
    /\ UNCHANGED << loaded_vars, exception, settings, i_num, results_stream,
                    derivative_poi_values, current_spectrum, output_file >>

\* after the map sweep's loops: the results replace the output file
MapSave ==
    /\ pc = "mapLoop"
    /\ i_beta = NumBetaSamples(settings)
    /\ output_file' = results_stream
    /\ pc' = "done"
    /\ UNCHANGED << loaded_vars, exception, settings, i_beta, i_num,
                    results_stream, derivative_poi_values, current_spectrum >>

AutoNext ==
    \/ MlemHeader \/ MlemCheckpoint \/ MlemSave
    \/ MapHeader \/ MapBeta \/ MapCheckpoint \/ MapRowEnd \/ MapSave

AutoSpec == AutoInit /\ [][AutoNext]_vars



\* ------------------------------------------------------------------------
\* Vocabulary of the properties
\* ------------------------------------------------------------------------
Measurement == 1..num_measurements

\* r lies in [1 - err, 1 + err]
InClosed(r, err) == FGE(r, FSub(One, err)) /\ FLE(r, FAdd(One, err))

\* r lies in (1 - err, 1 + err)
InOpen(r, err) == FGT(r, FSub(One, err)) /\ FLT(r, FAdd(One, err))

\* r lies strictly outside [1 - err, 1 + err]
StrictlyOutside(r, err) == FLT(r, FSub(One, err)) \/ FGT(r, FAdd(One, err))

\* the ratios of the spectrum the current call was entered with
EntryRatio ==
    MlemRatio(measurements,
              MlemEstimate(nns_response, spectrum_in, num_measurements, num_bins),
              num_measurements)

\* the mean of the current ratio vector
AverageRatio == FDiv(RatioSum(mlem_ratio, num_measurements), <<num_measurements, 1>>)

\* the first call of the worked example, with its cap of 100
ScenarioRun == IsScenario /\ cutoffs = << Scenario.cutoff >>

Bin == 1..num_bins

\* the inputs the specification calls valid: a non-negative response whose
\* every column sum is positive, non-negative measurements, a strictly
\* positive initial spectrum
ValidInputs ==
    /\ \A i \in Measurement : \A b \in Bin : FGE(nns_response[i][b], Zero)
    /\ \A b \in Bin :
          FGT(NormalizationSum(TransposeResponse(nns_response, num_measurements, num_bins),
                               b, num_measurements), Zero)
    /\ \A i \in Measurement : FGE(measurements[i], Zero)
    /\ \A b \in Bin : FGT(initial_spectrum[b], Zero)

\* the ratios of the spectrum the last update started from
RatioBeforeUpdate ==
    MlemRatio(measurements,
              MlemEstimate(nns_response, spectrum_before, num_measurements, num_bins),
              num_measurements)

\* runMLEM has been invoked
SolverInvoked == cutoffs # << >>

\* main has read the response file
ResponseLoaded == pc \notin { "start", "getMeasurements", "readResponse" }

\* the response has no rows, no columns, or a row whose length is not num_bins
BadResponse ==
    \/ Len(nns_response) = 0
    \/ num_bins = 0
    \/ \E i \in 1..Len(nns_response) : Len(nns_response[i]) # num_bins

\* the settings read are not all valid: the tolerance is outside (0,1), or
\* the iteration cap or the number of Poisson samples is not positive
InvalidSettings ==
    /\ pc # "start"
    /\ \/ ~(FGT(error, Zero) /\ FLT(error, One))
       \/ cutoff <= 0
       \/ num_poisson_samples <= 0

\* the uncertainty has been computed
Aggregated == pc \in { "dose", "doseError", "done" }

\* the sum of the squared deviations of the replicates from the reference
\* spectrum in bin b
SquaredDeviations(b) == SquaresSum(Zero, poissmat, spectrum, b, num_poisson_samples)

C2_TerminatesWithinCap ==
    /\ [](updates <= (IF cutoff >= 1 THEN cutoff - 1 ELSE 0))
    /\ [](pc # "main" => <>(pc = "main"))

\* a call that used all of the cutoff - 1 passes of a cap of at least 3
C2_Witness == Returned /\ cutoff >= 3 /\ updates = cutoff - 1

\* ------------------------------------------------------------------------
\* C3 (as stated): if at the test of an iteration every ratio lies in the
\* closed interval [1 - error, 1 + error], the solver stops there.
\* ------------------------------------------------------------------------
C3_StopsOnClosedInterval ==
    [][ pc = "test" /\ (\A m \in Measurement : InClosed(mlem_ratio[m], error))
        => pc' = "return" ]_vars

\* C3 (amended): if at the test of an iteration every ratio lies strictly
\* between 1 - error and 1 + error, the solver stops at that iteration.
C3_StopsOnOpenInterval ==
    [][ pc = "test" /\ (\A m \in Measurement : InOpen(mlem_ratio[m], error))
        => pc' = "return" /\ broke' ]_vars

\* a call stopped by ratios inside the tolerance, one of them not 1
C3_Witness ==
    /\ pc = "return" /\ broke
    /\ \A m \in Measurement : InOpen(mlem_ratio[m], error)
    /\ \E m \in Measurement : mlem_ratio[m] # One

\* ------------------------------------------------------------------------
\* C4: if at the test of an iteration some ratio lies strictly outside
\* [1 - error, 1 + error], the solver does not stop early there: it goes on
\* to the next loop index, whatever the other ratios or the mean are.
\* ------------------------------------------------------------------------
C4_OutlierBlocksStop ==
    [][ pc = "test" /\ (\E m \in Measurement : StrictlyOutside(mlem_ratio[m], error))
        => pc' = "for" /\ mlem_index' = mlem_index + 1 /\ ~broke' ]_vars

\* the loop went on with one ratio out of tolerance although the mean of
\* the ratios is within tolerance
C4_Witness ==
    /\ pc = "for" /\ updates >= 1 /\ continue_mlem
    /\ \E m \in Measurement : StrictlyOutside(mlem_ratio[m], error)
    /\ InOpen(AverageRatio, error)

\* ------------------------------------------------------------------------
\* C5: a call in which some estimate was zero (with a strictly positive
\* input spectrum) never returns a result to the caller as a normal call.
\* ------------------------------------------------------------------------
C5_ZeroEstimateNotReturned ==
    ~ ( /\ Returned
        /\ zero_estimate
        /\ \A b \in 1..num_bins : FGT(initial_spectrum[b], Zero) )

\* ------------------------------------------------------------------------
\* C6: runMLEM with argument a and then with argument b on the resulting
\* spectrum, neither call stopping on the tolerance, leaves the spectrum
\* that one call with argument a + b leaves from the initial spectrum.
\* ------------------------------------------------------------------------
C6_ResumeEqualsSingleRun ==
    Returned /\ Len(cutoffs) = 2 /\ breaks = 0
    => spectrum = RunSpectrum(1, cutoffs[1] + cutoffs[2], error, num_measurements,
                              num_bins, measurements, initial_spectrum, nns_response)

\* ------------------------------------------------------------------------
\* C7: the worked example: estimate (1,1) and ratio (2,3) in iteration 1,
\* spectrum (2,3) after it, ratio (1,1) in iteration 2, return value 2 with
\* spectrum (2,3).
\* ------------------------------------------------------------------------
C7_WorkedExample ==
    ScenarioRun =>
        /\ mlem_index <= 2
        /\ (pc = "ratio" /\ mlem_index = 1 => mlem_estimate = Vec(<<1, 1>>))
        /\ (pc = "update" /\ mlem_index = 1 => mlem_ratio = Vec(<<2, 3>>))
        /\ (pc = "test" /\ mlem_index = 1 => spectrum = Vec(<<2, 3>>))
        /\ (pc = "update" /\ mlem_index = 2 => mlem_ratio = Vec(<<1, 1>>))
        /\ (pc = "main" => num_iterations = 2 /\ spectrum = Vec(<<2, 3>>))

\* the worked example has returned
C7_Witness == ScenarioRun /\ Returned /\ broke /\ updates = 2

\* ------------------------------------------------------------------------
\* C8: if every ratio of the spectrum passed to runMLEM is within the
\* tolerance (passes the solver's test), a call with cap >= 2 returns 1
\* after exactly one pass.
\* ------------------------------------------------------------------------
C8_ConvergedInputReturnsOne ==
    /\ Returned
    /\ cutoff >= 2
    /\ \A m \in Measurement : InOpen(EntryRatio[m], error)
    => num_iterations = 1 /\ updates = 1

\* a call with a large cap entered with a spectrum within tolerance
C8_Witness ==
    /\ Returned /\ cutoff >= 3 /\ broke
    /\ \A m \in Measurement : InOpen(EntryRatio[m], error)

\* ------------------------------------------------------------------------
\* C9: the value runMLEM returns is at least 1 and equals the number of
\* spectrum updates the call performed.
\* ------------------------------------------------------------------------
C9_ReturnIsExecutedCount ==
    Returned /\ cutoff >= 1 => num_iterations >= 1 /\ num_iterations = updates

\* ------------------------------------------------------------------------
\* C10: a call (cap >= 1) whose loop ends without the tolerance test ever
\* being satisfied returns, and the value returned is the cap.
\* ------------------------------------------------------------------------
C10_ExhaustedReturnsCap ==
    Returned /\ cutoff >= 1 /\ ~broke => num_iterations = cutoff

\* a call whose every test failed, up to the cap
C10_Witness ==
    Returned /\ cutoff >= 2 /\ ~broke /\ continue_mlem /\ mlem_index = cutoff

\* ------------------------------------------------------------------------
\* C11: with valid inputs (non-negative response with positive column sums,
\* non-negative measurements, strictly positive initial spectrum) every
\* entry of spectrum is >= 0 after every iteration of runMLEM.
\* ------------------------------------------------------------------------
C11_SpectrumStaysNonNegative ==
    ValidInputs => \A b \in Bin : FGE(spectrum[b], Zero)

\* ------------------------------------------------------------------------
\* C12: in the mlem program each of the four dimension checks (response
\* rows against the number of measurements, response columns, taken from
\* the first row, against the number of bins, input spectrum against bins,
\* ICRP factors against bins) is performed before runMLEM is invoked; a
\* check that finds a mismatch throws, and after a throw runMLEM is never
\* invoked and no iteration runs.
\* ------------------------------------------------------------------------
C12_ChecksBeforeSolver ==
    /\ [](SolverInvoked =>
            /\ checked = DimensionChecks
            /\ Len(nns_response) = num_measurements
            /\ Len(nns_response[1]) = num_bins
            /\ Len(initial_spectrum) = num_bins
            /\ Len(icrp_factors) = num_bins)
    /\ [](exception # "none" => ~SolverInvoked /\ updates = 0 /\ pc = "terminated")
    /\ [][ /\ (pc = "checkRows" /\ Len(nns_response) # num_measurements
                 => exception' = "File dimensions mismatch")
           /\ (pc = "checkColumns" /\ nns_response # << >>
                 /\ Len(nns_response[1]) # num_bins
                 => exception' = "File dimensions mismatch")
           /\ (pc = "readSpectrum" /\ Len(initial_spectrum') # num_bins
                 => exception' = "File dimensions mismatch")
           /\ (pc = "readIcrp" /\ Len(icrp_factors') # num_bins
                 => exception' = "File dimensions mismatch") ]_vars

\* a response with one row less than there are measurements was refused
C12_Witness ==
    /\ exception = "File dimensions mismatch"
    /\ Len(nns_response) = num_measurements - 1
    /\ Len(nns_response) >= 1
    /\ ~SolverInvoked

\* ------------------------------------------------------------------------
\* C13: a response matrix with a row whose length differs from num_bins,
\* or with no rows or no columns, is rejected before reconstruction
\* starts: runMLEM is never invoked with it.
\* ------------------------------------------------------------------------
C13_BadResponseRejected ==
    ResponseLoaded /\ BadResponse => ~SolverInvoked

\* ------------------------------------------------------------------------
\* C14: with a tolerance outside (0,1), an iteration cap that is not
\* positive or a Poisson sample count that is not positive, the program is
\* stopped with an error: no reconstruction is run and no uncertainty is
\* aggregated.
\* ------------------------------------------------------------------------
C14_InvalidSettingsRejected ==
    InvalidSettings => ~SolverInvoked /\ sq = << >> /\ ~Aggregated

\* ------------------------------------------------------------------------
\* the selector of the sweep's settings is not one of the names the POI
\* chain of that sweep handles
UnhandledSelector ==
    settings.parameter_of_interest \notin Handled(settings.algorithm)

\* the sweep has written nothing to the output file
NothingWritten == output_file \in ExistingOutput

\* C15: in the mlem sweep and in the map sweep, a parameter-of-interest
\* selector that the sweep does not handle raises an error: the sweep never
\* completes, and its results are not written to the output file.
C15_UnhandledSelectorRejected ==
    UnhandledSelector =>
        /\ pc # "done"
        /\ NothingWritten

\* C16: every Poisson replicate begins its MLEM iterations from the
\* initial spectrum the reference run started from.
\* ------------------------------------------------------------------------
C16_ReplicateStartsFromInitialSpectrum ==
    pc \in { "sample", "unfold" } => ini_poisson = initial_spectrum

\* ------------------------------------------------------------------------
\* C17: after the N replicates sq[b] is the sum of the N squared deviations
\* of the replicates from the reference spectrum, and
\* s[b] = sqrt(sq[b] / N), in every bin b.
\* ------------------------------------------------------------------------
C17_UncertaintyIsRmsDeviation ==
    Aggregated /\ num_poisson_samples >= 1 =>
        \A b \in 1..height3 :
            /\ sq[b] = SquaredDeviations(b)
            /\ s[b] = Sqrt(FDiv(SquaredDeviations(b), <<num_poisson_samples, 1>>))

\* ------------------------------------------------------------------------
\* C18: with one Poisson sample whose sampled measurements equal the
\* original measurements, the reported uncertainty is 0 in every bin.
\* ------------------------------------------------------------------------
C18_IdenticalReplicateZeroUncertainty ==
    Aggregated /\ num_poisson_samples = 1 /\ data_poisson = measurements =>
        \A b \in 1..height3 : s[b] = Sqrt(Zero)

\* ------------------------------------------------------------------------
\* C19: the dose computed from a spectrum whose entries are all zero is
\* exactly 0, whatever the (finite) ICRP factors are.
\* ------------------------------------------------------------------------
C19_ZeroSpectrumZeroDose ==
    pc = "done" /\ (\A b \in 1..height3 : spectrum[b] = Zero) => dose = Zero

\* the dose of an all-zero spectrum was computed with a factor that is not 0
C19_Witness ==
    /\ pc = "done"
    /\ \A b \in 1..height3 : spectrum[b] = Zero
    /\ \E b \in 1..height3 : icrp_factors[b] # Zero
    /\ dose = Zero

\* ------------------------------------------------------------------------
\* C20: in every iteration of runMLEM the stop test comes after the update
\* of the spectrum and reads the ratios computed from the spectrum before
\* that update; the updated spectrum is not projected again, so from the
\* test on, and on return, mlem_ratio holds the ratios of the spectrum
\* before the last update.
\* ------------------------------------------------------------------------
C20_TestUsesPreUpdateRatio ==
    /\ [](pc \in {"test", "for", "return", "main"} /\ updates >= 1
            => mlem_ratio = RatioBeforeUpdate)
    /\ [][ pc = "test"
           => /\ spectrum = NewSpectrum(nns_response, spectrum_before, mlem_ratio,
                                        num_measurements, num_bins)
              /\ mlem_ratio' = mlem_ratio
              /\ spectrum' = spectrum
              /\ (pc' = "return") = ~ContinueMlem(RatioBeforeUpdate, error, num_measurements) ]_vars

\* a call has returned after an update that changed the ratios: the ratios
\* it leaves are those of the spectrum before the update, not of the result
C20_Witness ==
    /\ Returned /\ broke /\ updates >= 2
    /\ mlem_ratio = RatioBeforeUpdate
    /\ mlem_ratio # MlemRatio(measurements,
                              MlemEstimate(nns_response, spectrum, num_measurements, num_bins),
                              num_measurements)

\* ------------------------------------------------------------------------
\* C21: the value runMLEM returns tells the two ways a call ends apart: for
\* every cap >= 1 it is strictly less than the cap exactly when the
\* tolerance test was satisfied in some iteration, and it equals the cap
\* exactly when the loop ran out without the test ever being satisfied.
\* ------------------------------------------------------------------------
C21_CountDistinguishesTerminalStates ==
    Returned /\ cutoff >= 1 =>
        /\ (num_iterations < cutoff <=> broke)
        /\ (num_iterations = cutoff <=> ~broke)

\* a second call that stopped on the tolerance in its last possible pass,
\* after a first call that ran to its cap
C21_Witness ==
    /\ Returned /\ Len(cutoffs) = 2 /\ breaks = 1 /\ broke
    /\ num_iterations = cutoff - 1
    /\ cutoffs[1] >= 2

\* the loaded inputs agree in their dimensions: a rectangular response of
\* num_measurements rows and num_bins columns, num_bins values of the
\* spectrum and of the ICRP factors
DimensionsAgree ==
    /\ checked = DimensionChecks
    /\ Len(measurements) = num_measurements
    /\ Len(nns_response) = num_measurements
    /\ \A i \in 1..num_measurements : Len(nns_response[i]) = num_bins
    /\ Len(spectrum) = num_bins
    /\ Len(icrp_factors) = num_bins

\* the positions of main from the loop over the replicates to the dose
Resampling ==
    pc \in { "reread", "sample", "unfold", "store", "sumsq", "uncertainty", "dose" }

\* ------------------------------------------------------------------------
\* C22: for any num_bins and num_measurements that pass the dimension
\* checks, the Poisson resampling loop and the dose computations read and
\* write no element outside the loaded inputs, and a replicate's spectrum
\* has exactly the bins 0..num_bins-1.
\* ------------------------------------------------------------------------
C22_ResamplingWithinLoadedDimensions ==
    [][ Resampling /\ DimensionsAgree
        => /\ pc' # "undefined"
           /\ Len(ini_poisson') \in { 0, num_bins } ]_vars

\* ------------------------------------------------------------------------
\* C23: with 8 measurements, a replicate's inline loop makes as many
\* updates as runMLEM would make from the same spectrum with the same
\* (perturbed) measurements, cutoff and error, and leaves the same spectrum.
\* ------------------------------------------------------------------------
C23_ReplicateStopsLikeRunMLEM ==
    [][ /\ pc = "unfold" /\ pc' = "store"
        /\ DimensionsAgree
        /\ num_measurements = height_data /\ num_bins = height3
        => /\ ini_poisson' = RunSpectrum(1, cutoff, error, num_measurements, num_bins,
                                         data_poisson, ini_poisson, nns_response)
           /\ RunPoisson(1, cutoff, error, data_poisson, ini_poisson,
                         nns_response, icrp_factors, dose_std).passes
                = RunUpdates(1, cutoff, error, num_measurements, num_bins,
                             data_poisson, ini_poisson, nns_response) ]_vars

\* ------------------------------------------------------------------------
\* C24: for every replicate m and every cutoff >= 1, dosemat[m] is the dose
\* of the final spectrum stored in column m of poissmat, never a value left
\* in dose_std from before the replicate's own iterations.
\* ------------------------------------------------------------------------
C24_StoredDoseIsDoseOfStoredSpectrum ==
    cutoff >= 1 /\ DimensionsAgree /\ num_bins = height3
    => \A k \in 1..Len(dosemat) : dosemat[k] = Dose(poissmat[k], icrp_factors)

\* ------------------------------------------------------------------------
\* C25: after runMLEM returns, for every cap >= 1 (cap = 1 included, where
\* no iteration runs), mlem_ratio has exactly num_measurements entries, so
\* that main's reads of mlem_ratio[0..num_measurements-1] are in bounds.
\* ------------------------------------------------------------------------
C25_RatioVectorHasAllEntries ==
    Returned /\ cutoff >= 1 /\ DimensionsAgree
    => Len(mlem_ratio) = num_measurements

\* ------------------------------------------------------------------------
\* C26: in the map sweep the iterations of every beta start with
\* current_spectrum equal to the initial spectrum as loaded, and no step of
\* a sweep, solver calls included, modifies initial_spectrum.
\* ------------------------------------------------------------------------
C26_EveryBetaStartsFromInitialSpectrum ==
    /\ [][ pc = "mapLoop" /\ pc' = "mapRow"
           => current_spectrum' = initial_spectrum ]_vars
    /\ [][ initial_spectrum' = initial_spectrum ]_vars

\* a later beta is about to start, and the spectrum the previous beta left
\* is not the initial spectrum
C26_Witness ==
    /\ pc = "mapLoop"
    /\ i_beta >= 1 /\ i_beta < NumBetaSamples(settings)
    /\ current_spectrum # initial_spectrum

\* the positions inside runMLEM
InSolver == pc \in { "for", "estimate", "ratio", "update", "test", "return" }

\* ------------------------------------------------------------------------
\* C27: runMLEM leaves the measurements and the response matrix passed to
\* it unchanged, and in the mlem program the saved initial_spectrum; during
\* the whole Poisson resampling loop the reference spectrum, the original
\* measurements, the response and initial_spectrum are unchanged.
\* ------------------------------------------------------------------------
C27_InputsAreReadOnly ==
    /\ [][ InSolver
           => /\ measurements' = measurements
              /\ nns_response' = nns_response
              /\ initial_spectrum' = initial_spectrum ]_vars
    /\ [][ Resampling
           => /\ spectrum' = spectrum
              /\ measurements' = measurements
              /\ nns_response' = nns_response
              /\ initial_spectrum' = initial_spectrum ]_vars

\* the resampling is over: the reference spectrum is not the initial one,
\* and a replicate had other measurements and left another spectrum
C27_Witness ==
    /\ pc = "sumsq" /\ Len(poissmat) >= 1
    /\ DimensionsAgree
    /\ spectrum # initial_spectrum
    /\ data_poisson # measurements
    /\ poissmat[1] # spectrum

\* every estimate of the current pass is finite and not zero
EstimatesFiniteNonZero ==
    /\ Len(mlem_estimate) = num_measurements
    /\ \A m \in Measurement : IsFinite(mlem_estimate[m]) /\ mlem_estimate[m] # Zero

\* every column sum of the response is positive
ColumnSumsPositive ==
    \A b \in Bin :
        FGT(NormalizationSum(TransposeResponse(nns_response, num_measurements, num_bins),
                             b, num_measurements), Zero)

\* ------------------------------------------------------------------------
\* C28: under runMLEM's update with finite non-zero estimates and positive
\* column sums, a bin that is 0 before an iteration is 0 after it, in every
\* iteration: a zero bin never becomes non-zero.
\* ------------------------------------------------------------------------
C28_ZeroBinStaysZero ==
    [][ pc = "update" /\ EstimatesFiniteNonZero /\ ColumnSumsPositive
        => \A b \in Bin : spectrum[b] = Zero => spectrum'[b] = Zero ]_vars

\* a bin that was positive at entry and became 0 is still 0 after a later
\* update, next to a bin that is not 0
C28_Witness ==
    /\ pc = "test" /\ updates >= 2
    /\ EstimatesFiniteNonZero /\ ColumnSumsPositive
    /\ \E b \in Bin :
          spectrum_in[b] # Zero /\ spectrum_before[b] = Zero /\ spectrum[b] = Zero
    /\ \E b \in Bin : spectrum[b] # Zero

\* the spectrum reproduces the measurements: every estimate of the current
\* pass equals its measurement and every ratio is 1
ReproducesMeasurements ==
    /\ Len(mlem_estimate) = num_measurements
    /\ Len(mlem_ratio) = num_measurements
    /\ \A m \in Measurement :
          mlem_estimate[m] = measurements[m] /\ mlem_ratio[m] = One

RECURSIVE SquaredDoseDeviations(_)
SquaredDoseDeviations(n) ==
    IF n = 0 THEN Zero
    ELSE LET deviation == FSub(dosemat[n], dose)
         IN  FAdd(SquaredDoseDeviations(n - 1), FMul(deviation, deviation))

\* ------------------------------------------------------------------------
\* C30: the dose uncertainty reported after N >= 1 replicates is
\* sqrt((1/N) * sum over k of (dose_k - dose)^2), dose being the dose of the
\* reference spectrum and dose_k the dose recorded for replicate k; with
\* N = 1 and a replicate dose equal to the reference dose (as doubles
\* compare: a NaN equals nothing) it is exactly 0.
\* ------------------------------------------------------------------------
C30_DoseUncertaintyIsRmsDeviation ==
    pc = "done" /\ num_poisson_samples >= 1 =>
        /\ s_dose = Sqrt(FDiv(SquaredDoseDeviations(num_poisson_samples),
                              <<num_poisson_samples, 1>>))
        /\ (num_poisson_samples = 1 /\ dosemat[1] = dose /\ ~IsNaN(dose)
            => s_dose = Sqrt(Zero))

\* two replicates with different finite doses, one of them not the
\* reference dose, have been aggregated
C30_Witness ==
    /\ pc = "done" /\ num_poisson_samples = 2
    /\ IsFinite(dose) /\ IsFinite(dosemat[1]) /\ IsFinite(dosemat[2])
    /\ dosemat[1] # dosemat[2]
    /\ dosemat[2] # dose
    /\ s_dose # Sqrt(Zero)

====
